---- MODULE Spec2Model ----
(***************************************************************************)
(* Model of RustScan's scripting engine, src/scripts/mod.rs:               *)
(* init_scripts (mode selection, script discovery, header parsing, tag     *)
(* filter), Script::run (port string, template rendering, tokenizing) and  *)
(* execute_script (exit status normalisation).                             *)
(*                                                                         *)
(* Text is modelled as a sequence of one-character strings, so that        *)
(* formatting, substitution and tokenizing are computed and not assumed.   *)
(* Option<T> is modelled as a sequence: <<>> is None, <<v>> is Some(v).    *)
(***************************************************************************)
EXTENDS Integers, Sequences, FiniteSets

VARIABLES mode, fs, pc, result, idx, last

vars == <<mode, fs, pc, result, idx, last>>

----------------------------------------------------------------------------
(* Bounds of the model. *)

\* Largest number of entries the script directory holds.
MaxEntries == 2

----------------------------------------------------------------------------
(* Option *)

None == <<>>
Some(v) == <<v>>
IsSome(o) == o # <<>>
Unwrap(o) == o[1]

Range(s) == {s[i] : i \in 1..Len(s)}

----------------------------------------------------------------------------
(* Text helpers (std::string) *)

\* str::starts_with
StartsWith(s, pre) == Len(s) >= Len(pre) /\ SubSeq(s, 1, Len(pre)) = pre

\* First index >= 1 at which sub occurs in s, 0 when it does not.
Find(s, sub) ==
  LET hits == {i \in 1..(Len(s) - Len(sub) + 1) : SubSeq(s, i, i + Len(sub) - 1) = sub}
  IN IF hits = {} THEN 0 ELSE CHOOSE i \in hits : \A j \in hits : i <= j

\* str::contains
Contains(s, sub) == Find(s, sub) # 0

RECURSIVE Join(_, _)
\* [String]::join(sep)
Join(parts, sep) ==
  IF parts = <<>> THEN <<>>
  ELSE IF Len(parts) = 1 THEN parts[1]
  ELSE parts[1] \o sep \o Join(Tail(parts), sep)

RECURSIVE SplitOn(_, _)
\* str::split(sep) for a one-character separator: always at least one piece.
SplitOn(s, sep) ==
  LET i == Find(s, sep)
  IN IF i = 0 THEN <<s>>
     ELSE <<SubSeq(s, 1, i - 1)>> \o SplitOn(SubSeq(s, i + 1, Len(s)), sep)

RECURSIVE TrimStart(_)
TrimStart(s) == IF s # <<>> /\ s[1] = " " THEN TrimStart(Tail(s)) ELSE s

RECURSIVE TrimEnd(_)
TrimEnd(s) ==
  IF s # <<>> /\ s[Len(s)] = " " THEN TrimEnd(SubSeq(s, 1, Len(s) - 1)) ELSE s

\* str::trim
Trim(s) == TrimEnd(TrimStart(s))

Digit(d) ==
  CASE d = 0 -> "0" [] d = 1 -> "1" [] d = 2 -> "2" [] d = 3 -> "3" [] d = 4 -> "4"
    [] d = 5 -> "5" [] d = 6 -> "6" [] d = 7 -> "7" [] d = 8 -> "8" [] d = 9 -> "9"

RECURSIVE ToString(_)
\* u16::to_string / u8::to_string: the decimal representation.
ToString(n) == IF n < 10 THEN <<Digit(n)>> ELSE ToString(n \div 10) \o <<Digit(n % 10)>>

\* Ipv4Addr::to_string: the four octets in decimal, joined by dots.
IpToString(ip) == Join([i \in 1..Len(ip) |-> ToString(ip[i])], <<".">>)

----------------------------------------------------------------------------
(* Literals *)

TokScript == <<"{", "{", "s", "c", "r", "i", "p", "t", "}", "}">>
TokIp == <<"{", "{", "i", "p", "}", "}">>
TokPort == <<"{", "{", "p", "o", "r", "t", "}", "}">>
Sp == <<" ">>
Comma == <<",">>

\* "{{script}} {{ip}} {{port}}"
CfScript == TokScript \o Sp \o TokIp \o Sp \o TokPort
\* "nmap -p {{port}} {{ip}}"
CfNmap == <<"n", "m", "a", "p", " ", "-", "p", " ">> \o TokPort \o Sp \o TokIp
\* "nmap -vvv -p {{port}} {{ip}}"
CfDefault ==
  <<"n", "m", "a", "p", " ", "-", "v", "v", "v", " ", "-", "p", " ">> \o TokPort \o Sp \o TokIp

----------------------------------------------------------------------------
(* TOML documents.                                                         *)
(* A line of a header or of the selection config is a sequence of tokens:  *)
(* the comment marker '#', a blank ' ', one whole TOML statement           *)
(* `key = value` (value a string or an array of strings), or text that is  *)
(* no TOML statement.                                                      *)

Hash == [t |-> "hash", key |-> "", kind |-> "", val |-> <<>>]
Blank == [t |-> "blank", key |-> "", kind |-> "", val |-> <<>>]
Junk == [t |-> "junk", key |-> "", kind |-> "", val |-> <<>>]
StrStmt(k, v) == [t |-> "stmt", key |-> k, kind |-> "str", val |-> v]
ArrStmt(k, v) == [t |-> "stmt", key |-> k, kind |-> "arr", val |-> v]

\* A document is a sequence of lines. It is well formed when every line is
\* empty or one statement, and no key is given twice.
TomlOk(doc) ==
  /\ \A i \in 1..Len(doc) :
       doc[i] = <<>> \/ (Len(doc[i]) = 1 /\ doc[i][1].t = "stmt")
  /\ \A i, j \in 1..Len(doc) :
       (i # j /\ doc[i] # <<>> /\ doc[j] # <<>>) => doc[i][1].key # doc[j][1].key

\* The statement of a well-formed document for key k, as an Option.
TomlGet(doc, k) ==
  LET at == {i \in 1..Len(doc) : doc[i] # <<>> /\ doc[i][1].key = k}
  IN IF at = {} THEN None ELSE Some(doc[CHOOSE i \in at : TRUE][1])

\* serde: a field Option<T> is None when its key is missing, and the
\* document is rejected when the key holds a value of another type.
FieldOk(doc, k, kind) == TomlGet(doc, k) = None \/ Unwrap(TomlGet(doc, k)).kind = kind
Field(doc, k) == IF TomlGet(doc, k) = None THEN None ELSE Some(Unwrap(TomlGet(doc, k)).val)

\* toml::from_str::<ScriptFile>: [ok, val]. Unknown keys are ignored.
FromStrScriptFile(doc) ==
  IF /\ TomlOk(doc)
     /\ FieldOk(doc, "path", "str")
     /\ FieldOk(doc, "tags", "arr")
     /\ FieldOk(doc, "developer", "arr")
     /\ FieldOk(doc, "port", "str")
     /\ FieldOk(doc, "ports_separator", "str")
     /\ FieldOk(doc, "call_format", "str")
  THEN [ok |-> TRUE,
        val |-> [path |-> Field(doc, "path"),
                 tags |-> Field(doc, "tags"),
                 developer |-> Field(doc, "developer"),
                 port |-> Field(doc, "port"),
                 ports_separator |-> Field(doc, "ports_separator"),
                 call_format |-> Field(doc, "call_format")]]
  ELSE [ok |-> FALSE, val |-> <<>>]

\* toml::from_str::<ScriptConfig>: [ok, val].
FromStrScriptConfig(doc) ==
  IF /\ TomlOk(doc)
     /\ FieldOk(doc, "tags", "arr")
     /\ FieldOk(doc, "ports", "arr")
     /\ FieldOk(doc, "developer", "arr")
  THEN [ok |-> TRUE,
        val |-> [tags |-> Field(doc, "tags"),
                 ports |-> Field(doc, "ports"),
                 developer |-> Field(doc, "developer")]]
  ELSE [ok |-> FALSE, val |-> <<>>]

\* The built-in script, as the TOML text of the static DEFAULT.
DEFAULT ==
  << <<ArrStmt("tags", <<"core_approved", "RustScan", "default">>)>>,
     <<ArrStmt("developer", <<"RustScan", "https://github.com/RustScan">>)>>,
     <<StrStmt("ports_separator", Comma)>>,
     <<StrStmt("call_format", CfDefault)>> >>

----------------------------------------------------------------------------
(* ScriptFile::new                                                         *)
(* A directory entry is [path, kind, lines]:                               *)
(*   kind "noopen":   File::open fails;                                    *)
(*   kind "readfail": File::open succeeds and every read fails (a          *)
(*                    directory on Linux: read() gives EISDIR each time);  *)
(*   kind "file":     lines is what BufReader::lines() yields, each        *)
(*                    [ok, text]: Ok(text), or an Err (a line that is not  *)
(*                    UTF-8) after which the reader is at the next line.   *)

\* line.retain(|c| c != '#')
Retain(line) == SelectSeq(line, LAMBDA c : c # Hash)

RECURSIVE TrimLineStart(_)
TrimLineStart(s) == IF s # <<>> /\ s[1] = Blank THEN TrimLineStart(Tail(s)) ELSE s

RECURSIVE TrimLineEnd(_)
TrimLineEnd(s) ==
  IF s # <<>> /\ s[Len(s)] = Blank THEN TrimLineEnd(SubSeq(s, 1, Len(s) - 1)) ELSE s

\* line.trim()
TrimLine(s) == TrimLineEnd(TrimLineStart(s))

RECURSIVE Accumulate_NoBreak(_)
\* A faulty loop: a line that is no comment is passed over and does not end
\* the loop.
Accumulate_NoBreak(lines) ==
  IF lines = <<>> THEN <<>>
  ELSE IF ~lines[1].ok THEN Accumulate_NoBreak(Tail(lines))
  ELSE IF StartsWith(lines[1].text, <<Hash>>)
       THEN <<TrimLine(Retain(lines[1].text))>> \o Accumulate_NoBreak(Tail(lines))
  ELSE Accumulate_NoBreak(Tail(lines))

RECURSIVE Accumulate(_)
\* The loop over the lines after the first: an Err line is passed over, a
\* line starting with '#' is stripped, trimmed and appended, any other line
\* ends the loop.
Accumulate(lines) ==
  IF lines = <<>> THEN <<>>
  ELSE IF ~lines[1].ok THEN Accumulate(Tail(lines))
  ELSE IF StartsWith(lines[1].text, <<Hash>>)
       THEN <<TrimLine(Retain(lines[1].text))>> \o Accumulate(Tail(lines))
  ELSE <<>>

\* lines().skip(1), then the loop: the header blob lines_buf.
LinesBuf(file) == Accumulate(IF file.lines = <<>> THEN <<>> ELSE Tail(file.lines))

\* A faulty ScriptFile::new: the path is not attached to the parsed header.
ScriptFileNew_NoPath(file) ==
  IF file.kind = "noopen" THEN [st |-> "none", val |-> <<>>]
  ELSE IF file.kind = "readfail" THEN [st |-> "hang", val |-> <<>>]
  ELSE LET parsed == FromStrScriptFile(LinesBuf(file))
       IN IF parsed.ok THEN [st |-> "some", val |-> parsed.val]
          ELSE [st |-> "none", val |-> <<>>]

\* ScriptFile::new: [st, val] with st "some", "none", or "hang" when the
\* loop never ends: lines() yields Err for ever on a reader whose every read
\* fails, and the loop body does nothing on an Err.
ScriptFileNew(file) ==
  IF file.kind = "noopen" THEN [st |-> "none", val |-> <<>>]
  ELSE IF file.kind = "readfail" THEN [st |-> "hang", val |-> <<>>]
  ELSE LET parsed == FromStrScriptFile(LinesBuf(file))
       IN IF parsed.ok
          THEN [st |-> "some", val |-> [parsed.val EXCEPT !.path = Some(file.path)]]
          ELSE [st |-> "none", val |-> <<>>]

RECURSIVE ParseLoop(_)
\* The loop of parse_scripts over the paths, in order.
ParseLoop(files) ==
  IF files = <<>> THEN <<>>
  ELSE LET r == ScriptFileNew(files[1])
       IN (IF r.st = "some" THEN <<r.val>> ELSE <<>>) \o ParseLoop(Tail(files))

\* parse_scripts: [st, val], st "ok", or "hang" when ScriptFile::new hangs
\* on one of the files.
parse_scripts(files) ==
  IF \E i \in 1..Len(files) : ScriptFileNew(files[i]).st = "hang"
  THEN [st |-> "hang", val |-> <<>>]
  ELSE [st |-> "ok", val |-> ParseLoop(files)]

----------------------------------------------------------------------------
(* The file system read by Custom mode:                                    *)
(*   fs.home     whether dirs::home_dir() is Some;                          *)
(*   fs.dir      ~/.rustscan_scripts: "missing" (not a directory),         *)
(*               "unlistable" (a directory whose read_dir fails) or "ok";  *)
(*   fs.entries  its entries, in the order read_dir yields them;           *)
(*   fs.config   ~/.rustscan_scripts.toml: [readable, doc].                *)

Ok(text) == [ok |-> TRUE, text |-> text]
ErrLine == [ok |-> FALSE, text |-> <<>>]
Shebang == Ok(<<Hash, Junk>>)
Cmt(stmt) == Ok(<<Hash, stmt>>)
CmtSp(stmt) == Ok(<<Hash, Blank, stmt, Blank>>)

PathA == <<"/", "a">>
PathB == <<"/", "b">>
PathN == <<"/", "n">>
PathG == <<"/", "g">>
PathK == <<"/", "k">>
PathJ == <<"/", "j">>
PathO == <<"/", "o">>
PathD == <<"/", "d">>
PathSpace == <<"/", "c", " ", "d">>
Port9999 == <<"9", "9", "9", "9">>
Dash == <<"-">>

\* tags a, b, c; the {{script}} format; no port, no separator.
FileFull ==
  [path |-> PathA, kind |-> "file",
   lines |-> <<Shebang, Cmt(ArrStmt("tags", <<"a", "b", "c">>)),
               CmtSp(StrStmt("call_format", CfScript))>>]
\* tag a; a trigger port; a separator; a format without {{script}}.
FileTrig ==
  [path |-> PathB, kind |-> "file",
   lines |-> <<Shebang, CmtSp(ArrStmt("tags", <<"a">>)), Cmt(StrStmt("port", Port9999)),
               Cmt(StrStmt("ports_separator", Dash)), Cmt(StrStmt("call_format", CfNmap)),
               Ok(<<Junk>>)>>]
\* tags a, b and no call_format.
FileNoCf ==
  [path |-> PathN, kind |-> "file",
   lines |-> <<Shebang, Cmt(ArrStmt("tags", <<"b", "a">>))>>]
\* The second line is blank; a header follows it.
FileGap ==
  [path |-> PathG, kind |-> "file",
   lines |-> <<Shebang, Ok(<<>>), Cmt(ArrStmt("tags", <<"a", "b">>)),
               Cmt(StrStmt("call_format", CfScript))>>]
\* The second line is code, with a '#' further on; a header follows it.
FileCode ==
  [path |-> PathK, kind |-> "file",
   lines |-> <<Shebang, Ok(<<Junk, Blank, Hash, Junk>>), Cmt(ArrStmt("tags", <<"a">>)),
               Cmt(StrStmt("call_format", CfNmap))>>]
\* A header that is no TOML.
FileJunk ==
  [path |-> PathJ, kind |-> "file",
   lines |-> <<Shebang, Cmt(ArrStmt("tags", <<"a", "b">>)), CmtSp(Junk)>>]
\* A file that cannot be opened.
FileNoOpen == [path |-> PathO, kind |-> "noopen", lines |-> <<>>]
\* An entry that opens and cannot be read: a sub-directory.
FileDir == [path |-> PathD, kind |-> "readfail", lines |-> <<>>]
\* A path with a blank in it; a separator; a line that is not UTF-8 inside
\* the header; the {{script}} format.
FileSpace ==
  [path |-> PathSpace, kind |-> "file",
   lines |-> <<Shebang, Cmt(ArrStmt("tags", <<"a", "b">>)), ErrLine,
               Cmt(StrStmt("ports_separator", Dash)),
               Cmt(StrStmt("call_format", CfScript))>>]

Catalogue ==
  {FileFull, FileTrig, FileNoCf, FileGap, FileCode, FileJunk, FileNoOpen, FileDir, FileSpace}

\* Directory listings: up to MaxEntries distinct entries, in any order.
Listings ==
  UNION {{l \in [1..n -> Catalogue] : \A i, j \in 1..n : i # j => l[i] # l[j]} :
         n \in 0..MaxEntries}

Configs ==
  {[readable |-> FALSE, doc |-> <<>>],
   [readable |-> TRUE, doc |-> << <<StrStmt("tags", <<"a">>)>> >>],
   [readable |-> TRUE, doc |-> << <<ArrStmt("ports", <<"80">>)>> >>],
   [readable |-> TRUE, doc |-> << <<ArrStmt("tags", <<>>)>> >>],
   [readable |-> TRUE, doc |-> << <<ArrStmt("tags", <<"a">>)>> >>],
   [readable |-> TRUE, doc |-> << <<ArrStmt("tags", <<"b", "a", "b">>)>>,
                                  <<ArrStmt("developer", <<"x">>)>> >>]}

FsStates ==
  {[home |-> FALSE, dir |-> "missing", entries |-> <<>>, config |-> c] : c \in Configs}
  \cup {[home |-> TRUE, dir |-> d, entries |-> <<>>, config |-> c] :
          d \in {"missing", "unlistable"}, c \in Configs}
  \cup {[home |-> TRUE, dir |-> "ok", entries |-> l, config |-> c] :
          l \in Listings, c \in Configs}

Modes == {"None", "Default", "Custom"}

----------------------------------------------------------------------------
(* init_scripts *)

\* find_scripts: the entries of the script directory, or an error.
find_scripts(f) ==
  IF f.dir = "ok" THEN [ok |-> TRUE, val |-> f.entries]
  ELSE [ok |-> FALSE, val |-> <<>>]

\* ScriptConfig::read_config
read_config(f) ==
  IF ~f.home \/ ~f.config.readable THEN [ok |-> FALSE, val |-> <<>>]
  ELSE FromStrScriptConfig(f.config.doc)

\* A faulty is_subset: the test taken the other way round.
is_subset_Reversed(config_tags, script_tags) == Range(script_tags) \subseteq Range(config_tags)

\* HashSet::is_subset over the tags collected into sets.
is_subset(config_tags, script_tags) == Range(config_tags) \subseteq Range(script_tags)

\* The tag filter: the loop over parsed_scripts pushing to scripts_to_run.
Filter(config, parsed) ==
  IF IsSome(config.tags)
  THEN SelectSeq(parsed, LAMBDA script :
         IsSome(script.tags) /\ is_subset(Unwrap(config.tags), Unwrap(script.tags)))
  ELSE <<>>

\* The script of Default mode: DEFAULT parsed (the expect cannot fail).
DefaultScript == FromStrScriptFile(DEFAULT).val

\* The Custom arm of init_scripts, in the order of the code: home_dir,
\* find_scripts, parse_scripts, read_config, filter. parsed_scripts is the
\* local of that name once parse_scripts has returned.
InitCustom(f) ==
  IF ~f.home THEN [st |-> "Err", val |-> <<>>, parsed_scripts |-> None]
  ELSE IF ~find_scripts(f).ok THEN [st |-> "Err", val |-> <<>>, parsed_scripts |-> None]
  ELSE LET parsed == parse_scripts(find_scripts(f).val)
       IN IF parsed.st = "hang" THEN [st |-> "Hang", val |-> <<>>, parsed_scripts |-> None]
          ELSE IF ~read_config(f).ok
               THEN [st |-> "Err", val |-> <<>>, parsed_scripts |-> Some(parsed.val)]
          ELSE [st |-> "Ok", val |-> Filter(read_config(f).val, parsed.val),
                parsed_scripts |-> Some(parsed.val)]

\* A faulty init_scripts: Default mode resolves the home directory first.
init_scripts_DefaultNeedsHome(scripts, f) ==
  IF scripts = "None" THEN [st |-> "Ok", val |-> <<>>, parsed_scripts |-> None]
  ELSE IF scripts = "Default"
       THEN IF f.home THEN [st |-> "Ok", val |-> <<DefaultScript>>, parsed_scripts |-> None]
            ELSE [st |-> "Err", val |-> <<>>, parsed_scripts |-> None]
  ELSE InitCustom(f)

\* init_scripts: [st, val, parsed_scripts], st "Ok" with the scripts to run,
\* "Err", or "Hang" when the call never returns.
init_scripts(scripts, f) ==
  IF scripts = "None" THEN [st |-> "Ok", val |-> <<>>, parsed_scripts |-> None]
  ELSE IF scripts = "Default"
       THEN [st |-> "Ok", val |-> <<DefaultScript>>, parsed_scripts |-> None]
  ELSE InitCustom(f)

----------------------------------------------------------------------------
(* Script::run *)

\* Script::build
Build(path, ip, open_ports, trigger_port, ports_separator, tags, call_format) ==
  [path |-> path, ip |-> ip, open_ports |-> open_ports, trigger_port |-> trigger_port,
   ports_separator |-> ports_separator, tags |-> tags, call_format |-> call_format]

\* self.ports_separator.unwrap_or(",")
Separator(script) ==
  IF IsSome(script.ports_separator) THEN Unwrap(script.ports_separator) ELSE Comma

\* A faulty ports_str: the trigger port does not replace the joined ports.
PortsStr_NoTrigger(script) ==
  Join([i \in 1..Len(script.open_ports) |-> ToString(script.open_ports[i])], Separator(script))

\* ports_str: the open ports joined, replaced by the trigger port if any.
PortsStr(script) ==
  LET joined == Join([i \in 1..Len(script.open_ports) |-> ToString(script.open_ports[i])],
                     Separator(script))
  IN IF IsSome(script.trigger_port) THEN Unwrap(script.trigger_port) ELSE joined

RECURSIVE TemplateNew(_)
\* text_placeholder Template::new: the text cut into literal pieces and
\* placeholders {{key}}, the key trimmed; [ph, text] each.
TemplateNew(s) ==
  IF s = <<>> THEN <<>>
  ELSE LET i == Find(s, <<"{", "{">>)
       IN IF i = 0 THEN <<[ph |-> FALSE, text |-> s]>>
          ELSE LET pre == SubSeq(s, 1, i - 1)
                   rest == SubSeq(s, i + 2, Len(s))
                   j == Find(rest, <<"}", "}">>)
                   key == Trim(IF j = 0 THEN rest ELSE SubSeq(rest, 1, j - 1))
                   after == IF j = 0 THEN <<>> ELSE SubSeq(rest, j + 2, Len(rest))
               IN (IF pre = <<>> THEN <<>> ELSE <<[ph |-> FALSE, text |-> pre]>>)
                  \o (IF key = <<>> THEN <<>> ELSE <<[ph |-> TRUE, text |-> key]>>)
                  \o TemplateNew(after)

RECURSIVE FillWith(_, _)
\* Template::fill_with_struct: each placeholder replaced by the field of
\* its name, by nothing when the struct has no such field. parts is a
\* sequence of <<key, value>>.
FillWith(tokens, parts) ==
  IF tokens = <<>> THEN <<>>
  ELSE LET t == tokens[1]
           at == {k \in 1..Len(parts) : parts[k][1] = t.text}
           piece == IF ~t.ph THEN t.text
                    ELSE IF at = {} THEN <<>>
                    ELSE parts[CHOOSE k \in at : TRUE][2]
       IN piece \o FillWith(Tail(tokens), parts)

KeyScript == <<"s", "c", "r", "i", "p", "t">>
KeyIp == <<"i", "p">>
KeyPort == <<"p", "o", "r", "t">>

\* The rendering of a call format: [st, val], st "ok" with to_run, or
\* "panic" when the format has {{script}} and the path is None
\* (self.path.unwrap()).
Render(script, final_call_format) ==
  IF Contains(final_call_format, TokScript)
  THEN IF ~IsSome(script.path) THEN [st |-> "panic", val |-> <<>>]
       ELSE [st |-> "ok",
             val |-> FillWith(TemplateNew(final_call_format),
                              << <<KeyScript, Unwrap(script.path)>>,
                                 <<KeyIp, IpToString(script.ip)>>,
                                 <<KeyPort, PortsStr(script)>> >>)]
  ELSE [st |-> "ok",
        val |-> FillWith(TemplateNew(final_call_format),
                         << <<KeyIp, IpToString(script.ip)>>,
                            <<KeyPort, PortsStr(script)>> >>)]

IsSpace(c) == c \in {" ", "\t", "\n"}

RECURSIVE Words(_, _, _, _, _)
\* shell_words::split, as its state machine: s the text, i the next
\* character, word the word being read, words the words read. [ok, val].
\* (The backquote, which a backslash inside double quotes also escapes, is
\* not a character of the model's texts.)
Words(s, i, state, word, words) ==
  LET eof == i > Len(s)
      c == IF eof THEN "" ELSE s[i]
      done(ws) == [ok |-> TRUE, val |-> ws]
      bad == [ok |-> FALSE, val |-> <<>>]
      go(st, w, ws) == Words(s, i + 1, st, w, ws)
  IN CASE state = "Delimiter" ->
            IF eof THEN done(words)
            ELSE IF c = "'" THEN go("SingleQuoted", word, words)
            ELSE IF c = "\"" THEN go("DoubleQuoted", word, words)
            ELSE IF c = "\\" THEN go("Backslash", word, words)
            ELSE IF IsSpace(c) THEN go("Delimiter", word, words)
            ELSE IF c = "#" THEN go("Comment", word, words)
            ELSE go("Unquoted", Append(word, c), words)
       [] state \in {"Backslash", "UnquotedBackslash"} ->
            IF eof THEN done(Append(words, Append(word, "\\")))
            ELSE IF c = "\n"
                 THEN go(IF state = "Backslash" THEN "Delimiter" ELSE "Unquoted", word, words)
            ELSE go("Unquoted", Append(word, c), words)
       [] state = "Unquoted" ->
            IF eof THEN done(Append(words, word))
            ELSE IF c = "'" THEN go("SingleQuoted", word, words)
            ELSE IF c = "\"" THEN go("DoubleQuoted", word, words)
            ELSE IF c = "\\" THEN go("UnquotedBackslash", word, words)
            ELSE IF IsSpace(c) THEN go("Delimiter", <<>>, Append(words, word))
            ELSE go("Unquoted", Append(word, c), words)
       [] state = "SingleQuoted" ->
            IF eof THEN bad
            ELSE IF c = "'" THEN go("Unquoted", word, words)
            ELSE go("SingleQuoted", Append(word, c), words)
       [] state = "DoubleQuoted" ->
            IF eof THEN bad
            ELSE IF c = "\"" THEN go("Unquoted", word, words)
            ELSE IF c = "\\" THEN go("DoubleQuotedBackslash", word, words)
            ELSE go("DoubleQuoted", Append(word, c), words)
       [] state = "DoubleQuotedBackslash" ->
            IF eof THEN bad
            ELSE IF c = "\n" THEN go("DoubleQuoted", word, words)
            ELSE IF c \in {"$", "\"", "\\"} THEN go("DoubleQuoted", Append(word, c), words)
            ELSE go("DoubleQuoted", Append(Append(word, "\\"), c), words)
       [] OTHER ->
            IF eof THEN done(words)
            ELSE IF c = "\n" THEN go("Delimiter", word, words)
            ELSE go("Comment", word, words)

\* shell_words::split(&to_run.split(" ").collect().join(" "))
Arguments(to_run) == Words(Join(SplitOn(to_run, Sp), Sp), 1, "Delimiter", <<>>, <<>>)

----------------------------------------------------------------------------
(* execute_script                                                          *)
(* The child is [spawn, status, stdout, oserr]: whether capture() could    *)
(* start the process and, if so, its subprocess::ExitStatus [tag, code]    *)
(* (Exited(u32), Signaled(u8), Other(i32), Undetermined) and its captured  *)
(* standard output (stdout_str(), the bytes decoded); otherwise the text   *)
(* of the OS error.                                                        *)

\* A u32 is held as its two 16-bit halves [hi, lo], value hi * 65536 + lo.
U32(hi, lo) == [hi |-> hi, lo |-> lo]

\* `c as i32` of a u32: the same 32 bits read as two's complement.
AsI32(c) == (IF c.hi >= 32768 THEN c.hi - 65536 ELSE c.hi) * 65536 + c.lo

\* A faulty es: every status that is no exit and no signal gives -1.
ExitCode_OtherSentinel(status) ==
  CASE status.tag = "Exited" -> AsI32(status.code)
    [] status.tag = "Signaled" -> status.code
    [] OTHER -> -1

\* es: the termination status as an integer.
ExitCode(status) ==
  CASE status.tag = "Exited" -> AsI32(status.code)
    [] status.tag = "Signaled" -> status.code
    [] status.tag = "Other" -> status.code
    [] OTHER -> -1

OkResult(out) == [kind |-> "Ok", msg |-> "", code |-> 0, out |-> Some(out)]
ErrResult(msg, code) == [kind |-> "Err", msg |-> msg, code |-> code, out |-> None]
PanicResult(msg) == [kind |-> "Panic", msg |-> msg, code |-> 0, out |-> None]

\* A faulty execute_script: only a positive code is a failure.
execute_script_PositiveOnly(arguments, child) ==
  IF arguments = <<>> THEN PanicResult("removal index (is 0) should be < len (is 0)")
  ELSE IF child.spawn
       THEN LET es == ExitCode(child.status)
            IN IF es > 0 THEN ErrResult("Exit code = ", es)
               ELSE OkResult(child.stdout)
       ELSE ErrResult(child.oserr, 0)

\* execute_script: the Result it returns; arguments.remove(0) panics on an
\* empty vector.
execute_script(arguments, child) ==
  IF arguments = <<>> THEN PanicResult("removal index (is 0) should be < len (is 0)")
  ELSE IF child.spawn
       THEN LET es == ExitCode(child.status)
            IN IF es # 0 THEN ErrResult("Exit code = ", es)
               ELSE OkResult(child.stdout)
       ELSE ErrResult(child.oserr, 0)

\* A faulty Script::run: a missing call_format leaves final_call_format
\* empty and the run goes on.
Prepare_EmptyFormat(script) ==
  LET r == Render(script, IF IsSome(script.call_format) THEN Unwrap(script.call_format) ELSE <<>>)
      base == [st |-> "exec", res |-> PanicResult(""), ports_str |-> PortsStr(script),
               rendered |-> FALSE, to_run |-> <<>>, arguments |-> <<>>]
  IN IF r.st = "panic"
     THEN [base EXCEPT !.st = "end",
                       !.res = PanicResult("called Option::unwrap() on a None value")]
     ELSE LET a == Arguments(r.val)
              done == [base EXCEPT !.rendered = TRUE, !.to_run = r.val]
          IN IF ~a.ok
             THEN [done EXCEPT !.st = "end",
                               !.res = PanicResult("Failed to parse script arguments")]
             ELSE [done EXCEPT !.arguments = a.val]

\* Script::run up to the call of execute_script: the port string, the
\* rendering of the template and the argument vector. st is "end" when run
\* ends there, with res what it returns (or the panic), else "exec".
Prepare(script) ==
  LET base == [st |-> "exec", res |-> PanicResult(""), ports_str |-> PortsStr(script),
               rendered |-> FALSE, to_run |-> <<>>, arguments |-> <<>>]
  IN IF ~IsSome(script.call_format)
     THEN [base EXCEPT !.st = "end", !.res = ErrResult("Failed to parse execution format.", 0)]
     ELSE LET r == Render(script, Unwrap(script.call_format))
          IN IF r.st = "panic"
             THEN [base EXCEPT !.st = "end",
                               !.res = PanicResult("called Option::unwrap() on a None value")]
             ELSE LET a == Arguments(r.val)
                      done == [base EXCEPT !.rendered = TRUE, !.to_run = r.val]
                  IN IF ~a.ok
                     THEN [done EXCEPT !.st = "end",
                                       !.res = PanicResult("Failed to parse script arguments")]
                     ELSE [done EXCEPT !.arguments = a.val]

\* Script::run from there on a child behaviour: what it returns (res) and
\* what it did on the way; spawned is whether a child process was started.
Complete(p, child) ==
  [res |-> IF p.st = "end" THEN p.res ELSE execute_script(p.arguments, child),
   ports_str |-> p.ports_str, rendered |-> p.rendered, to_run |-> p.to_run,
   arguments |-> p.arguments,
   spawned |-> p.st = "exec" /\ p.arguments # <<>> /\ child.spawn]

\* Script::run
Run(script, child) == Complete(Prepare(script), child)

----------------------------------------------------------------------------
(* The run: init_scripts is called once, then the caller binds each        *)
(* selected script to the scanned address and open ports and runs it, one  *)
(* after the other.                                                        *)

Ips == {<<10, 0, 0, 1>>}
\* The caller runs scripts only for an address with open ports.
PortLists == {<<22>>, <<80, 443>>}

Exited(c) == [tag |-> "Exited", code |-> c]
Signaled(c) == [tag |-> "Signaled", code |-> c]
Other(c) == [tag |-> "Other", code |-> c]
Undetermined == [tag |-> "Undetermined", code |-> 0]
Spawned(status, out) == [spawn |-> TRUE, status |-> status, stdout |-> out, oserr |-> ""]

Children ==
  {[spawn |-> FALSE, status |-> Undetermined, stdout |-> "",
    oserr |-> "No such file or directory (os error 2)"],
   Spawned(Exited(U32(0, 0)), "Nmap done"), Spawned(Exited(U32(0, 0)), ""),
   Spawned(Exited(U32(0, 2)), "Nmap done"),
   Spawned(Exited(U32(49152, 5)), ""), Spawned(Signaled(9), "Nmap done"),
   Spawned(Other(0), "Nmap done"), Spawned(Other(5), "Nmap done"),
   Spawned(Undetermined, "Nmap done")}

\* The caller's binding of a selected ScriptFile to the scan.
Bind(d, ip, open_ports) ==
  Build(d.path, ip, open_ports, d.port, d.ports_separator, d.tags, d.call_format)

NoResult == [st |-> "NotCalled", val |-> <<>>, parsed_scripts |-> None]
NoRun == [ran |-> FALSE]

\* Every ScriptFile init_scripts can return, and every Script the caller
\* can build of one; Prepare is tabulated over these, once.
ScriptFiles ==
  {DefaultScript} \cup {ScriptFileNew(f).val : f \in {g \in Catalogue : ScriptFileNew(g).st = "some"}}
Scripts == {Bind(d, ip, open_ports) : d \in ScriptFiles, ip \in Ips, open_ports \in PortLists}
Prepared == [script \in Scripts |-> Prepare(script)]

Init ==
  /\ mode \in Modes
  /\ fs \in FsStates
  /\ pc = "start"
  /\ result = NoResult
  /\ idx = 0
  /\ last = NoRun

\* The call of init_scripts.
InitScripts ==
  /\ pc = "start"
  /\ result' = init_scripts(mode, fs)
  /\ pc' = CASE result'.st = "Ok" -> IF result'.val = <<>> THEN "done" ELSE "run"
             [] result'.st = "Err" -> "failed"
             [] OTHER -> "hung"
  /\ UNCHANGED <<mode, fs, idx, last>>

\* The next selected script is bound and run to its end. A panic unwinds
\* the caller; an Err is a value and the caller goes on.
RunScript ==
  /\ pc = "run"
  /\ idx < Len(result.val)
  /\ \E ip \in Ips, open_ports \in PortLists, child \in Children :
       LET script == Bind(result.val[idx + 1], ip, open_ports)
           r == Complete(Prepared[script], child)
       IN /\ last' = [ran |-> TRUE, n |-> idx + 1, script |-> script, child |-> child, run |-> r]
          /\ pc' = IF r.res.kind = "Panic" THEN "aborted"
                   ELSE IF idx + 1 = Len(result.val) THEN "done" ELSE "run"
  /\ idx' = idx + 1
  /\ UNCHANGED <<mode, fs, result>>

Next == InitScripts \/ RunScript

Spec == Init /\ [][Next]_vars

----------------------------------------------------------------------------
(* Properties *)

Ran == last.ran
ReachedExec == Ran /\ Prepared[last.script].st = "exec"

\* The integer execute_script made of the child's termination status, as
\* its result shows it: Ok is returned exactly on 0, an Err carries it.
ShownCode == IF last.run.res.kind = "Ok" THEN 0 ELSE last.run.res.code

(* C1 *)
C1_Required == read_config(fs).val.tags
C1_Qualifies(d) ==
  /\ C1_Required # None
  /\ d.tags # None
  /\ \A i \in 1..Len(C1_Required[1]) : \E j \in 1..Len(d.tags[1]) : d.tags[1][j] = C1_Required[1][i]
C1_Position(path) == CHOOSE i \in 1..Len(fs.entries) : fs.entries[i].path = path[1]

\* C1: in Custom mode, when init_scripts succeeds, its result is exactly the
\* parsed descriptors, kept in the directory's enumeration order, for which
\* the config's tags are present, the descriptor's tags are present and every
\* config tag is one of the descriptor's tags; it is empty when the config has
\* no tags, and never holds a descriptor without tags.
C1_TagFilter ==
  (mode = "Custom" /\ result.st = "Ok") =>
    LET parsed == result.parsed_scripts[1]
    IN /\ result.val = SelectSeq(parsed, C1_Qualifies)
       /\ \A i, j \in 1..Len(parsed) :
            i < j => C1_Position(parsed[i].path) < C1_Position(parsed[j].path)
       /\ C1_Required = None => result.val = <<>>
       /\ \A i \in 1..Len(result.val) : result.val[i].tags # None

\* A Custom run that selected a descriptor whose tags are a strict superset of
\* the required ones and left another parsed descriptor out.
C1_Witness ==
  /\ mode = "Custom" /\ result.st = "Ok"
  /\ Len(result.val) >= 1
  /\ Len(result.val) < Len(result.parsed_scripts[1])
  /\ \E i \in 1..Len(result.val) :
       /\ Range(C1_Required[1]) \subseteq Range(result.val[i].tags[1])
       /\ Range(C1_Required[1]) # Range(result.val[i].tags[1])
       /\ Range(C1_Required[1]) # {}

(* C2 *)
C2_Template ==
  <<"n", "m", "a", "p", " ", "-", "v", "v", "v", " ", "-", "p", " ",
    "{", "{", "p", "o", "r", "t", "}", "}", " ", "{", "{", "i", "p", "}", "}">>

\* C2: whatever the file system holds, init_scripts in mode None returns Ok
\* with an empty list and no script is ever run; in mode Default it returns Ok
\* with exactly one descriptor, whose call_format is
\* "nmap -vvv -p {{port}} {{ip}}" and whose ports_separator is ",".
C2_NoneAndDefault ==
  /\ (mode = "None" /\ pc # "start") =>
       result.st = "Ok" /\ result.val = <<>> /\ idx = 0 /\ ~Ran /\ pc = "done"
  /\ (mode = "Default" /\ pc # "start") =>
       /\ result.st = "Ok"
       /\ Len(result.val) = 1
       /\ result.val[1].call_format = <<C2_Template>>
       /\ result.val[1].ports_separator = << <<",">> >>
       /\ idx <= 1

\* Default mode has returned its one script although the home directory
\* cannot be resolved.
C2_Witness ==
  mode = "Default" /\ result.st = "Ok" /\ Len(result.val) = 1 /\ ~fs.home /\ ~fs.config.readable

(* C3 *)
RECURSIVE C3_Joined(_, _)
C3_Joined(ports, sep) ==
  IF ports = <<>> THEN <<>>
  ELSE IF Len(ports) = 1 THEN ToString(ports[1])
  ELSE C3_Joined(SubSeq(ports, 1, Len(ports) - 1), sep) \o sep \o ToString(ports[Len(ports)])

\* C3: the port string of Script::run is the trigger port, verbatim, when
\* there is one; otherwise the open ports in decimal, in their order, joined
\* by ports_separator, or by "," when there is none ([80,443] gives "80,443");
\* and it is what replaces {{port}}.
C3_PortString ==
  Ran =>
    LET sc == last.script
        sep == IF sc.ports_separator = None THEN <<",">> ELSE sc.ports_separator[1]
    IN /\ last.run.ports_str =
            IF sc.trigger_port # None THEN sc.trigger_port[1]
            ELSE C3_Joined(sc.open_ports, sep)
       /\ (sc.trigger_port = None /\ sc.ports_separator = None /\ sc.open_ports = <<80, 443>>)
            => last.run.ports_str = <<"8", "0", ",", "4", "4", "3">>
       /\ (last.run.rendered /\ sc.call_format = <<CfNmap>>)
            => last.run.to_run =
                 <<"n", "m", "a", "p", " ", "-", "p", " ">> \o last.run.ports_str
                 \o <<" ">> \o IpToString(sc.ip)

\* A run with open ports [80,443], no trigger port and no separator, whose
\* port string is "80,443".
C3_Witness ==
  /\ Ran
  /\ last.script.trigger_port = None /\ last.script.ports_separator = None
  /\ last.script.open_ports = <<80, 443>>
  /\ last.run.ports_str = <<"8", "0", ",", "4", "4", "3">>
  /\ last.run.rendered

(* C4 *)
\* n is the u32 c read as an i32: the same 32 bits.
C4_AsSigned(n, c) ==
  /\ n % 65536 = c.lo
  /\ (n - c.lo) \div 65536 \in {c.hi, c.hi - 65536}
  /\ (n < 0) = (c.hi >= 32768)

\* C4 as claimed: a normal exit yields its exit code, a signal the signal
\* number, every other termination state -1.
C4_Original ==
  (ReachedExec /\ last.child.spawn) =>
    LET st == last.child.status
    IN CASE st.tag = "Exited" -> C4_AsSigned(ShownCode, st.code)
         [] st.tag = "Signaled" -> ShownCode = st.code
         [] OTHER -> ShownCode = -1

\* C4, amended: a normal exit yields its exit code (as an i32), a signal the
\* signal number, ExitStatus::Other(c) the c it carries, and only
\* ExitStatus::Undetermined yields -1.
C4_ExitCode ==
  (ReachedExec /\ last.child.spawn) =>
    LET st == last.child.status
    IN CASE st.tag = "Exited" -> C4_AsSigned(ShownCode, st.code)
         [] st.tag = "Signaled" -> ShownCode = st.code
         [] st.tag = "Other" -> ShownCode = st.code
         [] OTHER -> ShownCode = -1

\* A child that ended in ExitStatus::Other(5): the run failed with code 5.
C4_Witness ==
  /\ ReachedExec /\ last.child.spawn
  /\ last.child.status.tag = "Other" /\ last.child.status.code = 5
  /\ last.run.res.kind = "Err" /\ last.run.res.code = 5

(* C5 *)
\* C5: for a child that was spawned and has terminated, execute_script
\* returns Ok, with exactly the captured standard output, if and only if the
\* normalised code is 0; on another code it returns an Err carrying the code
\* and no output. When the process cannot be spawned it returns an Err with
\* the text of the OS error, never Ok.
C5_Result ==
  ReachedExec =>
    LET res == last.run.res
    IN IF last.child.spawn
       THEN LET es == ExitCode(last.child.status)
            IN /\ (res.kind = "Ok") = (es = 0)
               /\ es = 0 => res.out = <<last.child.stdout>>
               /\ es # 0 => res.kind = "Err" /\ res.code = es /\ res.out = None
                            /\ res.msg = "Exit code = "
       ELSE res.kind = "Err" /\ res.msg = last.child.oserr /\ res.out = None

\* A child that wrote "Nmap done" and exited with 2: an Err with code 2 and
\* no output.
C5_Witness ==
  /\ ReachedExec /\ last.child.spawn
  /\ last.child.status.tag = "Exited" /\ last.child.status.code = U32(0, 2)
  /\ last.child.stdout = "Nmap done"
  /\ last.run.res = ErrResult("Exit code = ", 2)

(* C6 *)
\* A file whose second line is read and does not begin with '#'.
C6_Gap(f) ==
  f.kind = "file" /\ Len(f.lines) >= 2 /\ f.lines[2].ok
  /\ ~(f.lines[2].text # <<>> /\ f.lines[2].text[1] = Hash)
C6_Parsed == result.parsed_scripts[1]
C6_Paths == {C6_Parsed[i].path : i \in 1..Len(C6_Parsed)}
C6_Empty ==
  [path |-> None, tags |-> None, developer |-> None, port |-> None,
   ports_separator |-> None, call_format |-> None]

\* C6 as claimed: such a file yields an empty header blob, the parse of the
\* blob fails, ScriptFile::new returns None and the file is not in the list
\* of parse_scripts, while the other files of the batch are parsed.
C6_Original ==
  (mode = "Custom" /\ result.parsed_scripts # None) =>
    \A i \in 1..Len(fs.entries) :
      C6_Gap(fs.entries[i]) =>
        /\ LinesBuf(fs.entries[i]) = <<>>
        /\ ~FromStrScriptFile(LinesBuf(fs.entries[i])).ok
        /\ ScriptFileNew(fs.entries[i]).st = "none"
        /\ <<fs.entries[i].path>> \notin C6_Paths

\* C6, amended: such a file yields an empty header blob; the parse of the
\* empty blob succeeds with every field absent, so ScriptFile::new returns a
\* descriptor that has its path and nothing else and the file is in every
\* list parse_scripts returns, beside the other parseable files of the batch;
\* having no tags, it is never among the scripts init_scripts selects.
C6_GapFile ==
  (mode = "Custom" /\ result.parsed_scripts # None) =>
    \A i \in 1..Len(fs.entries) :
      C6_Gap(fs.entries[i]) =>
        /\ LinesBuf(fs.entries[i]) = <<>>
        /\ FromStrScriptFile(LinesBuf(fs.entries[i])) = [ok |-> TRUE, val |-> C6_Empty]
        /\ \E k \in 1..Len(C6_Parsed) :
             C6_Parsed[k] = [C6_Empty EXCEPT !.path = <<fs.entries[i].path>>]
        /\ \A j \in 1..Len(fs.entries) :
             ScriptFileNew(fs.entries[j]).st = "some" => <<fs.entries[j].path>> \in C6_Paths
        /\ \A k \in 1..Len(result.val) : result.val[k].path # <<fs.entries[i].path>>

\* parse_scripts returned two descriptors: the one of the file with the gap,
\* bare, and the one of another file of the batch.
C6_Witness ==
  /\ mode = "Custom" /\ result.parsed_scripts # None
  /\ Len(C6_Parsed) = 2
  /\ \E i \in 1..Len(fs.entries) :
       C6_Gap(fs.entries[i]) /\ [C6_Empty EXCEPT !.path = <<fs.entries[i].path>>] \in Range(C6_Parsed)

(* C7 *)
\* C7: a descriptor without call_format can be selected; Script::run on it
\* returns the Err "Failed to parse execution format." with no template
\* rendered and no child spawned, and the caller goes on to the scripts that
\* remain.
C7_MissingFormat ==
  (Ran /\ last.script.call_format = None) =>
    /\ last.run.res = ErrResult("Failed to parse execution format.", 0)
    /\ ~last.run.rendered /\ last.run.to_run = <<>> /\ last.run.arguments = <<>>
    /\ ~last.run.spawned
    /\ pc = IF last.n < Len(result.val) THEN "run" ELSE "done"
    /\ idx = last.n

\* The first selected script had no call_format, and the second one has
\* been run with a child process.
C7_Witness ==
  /\ Ran /\ last.n = 2
  /\ result.val[1].call_format = None
  /\ last.run.spawned

(* C8 *)
C8_Fatal ==
  \/ ~fs.home
  \/ fs.dir # "ok"
  \/ ~fs.config.readable
  \/ ~FromStrScriptConfig(fs.config.doc).ok

\* C8: in Custom mode init_scripts returns an error if and only if a
\* run-fatal condition holds (home directory unresolved, script directory
\* missing or not enumerable, selection config unreadable or unparseable);
\* a descriptor file that cannot be read or parsed is only left out of the
\* parsed list.
C8_Claim ==
  (mode = "Custom" /\ pc # "start") =>
    /\ (result.st = "Err") = C8_Fatal
    /\ (fs.home /\ fs.dir = "ok") =>
         /\ result.parsed_scripts # None
         /\ \A i \in 1..Len(fs.entries) :
              (fs.entries[i].kind # "file" \/ ~FromStrScriptFile(LinesBuf(fs.entries[i])).ok)
                => <<fs.entries[i].path>> \notin C6_Paths

(* C9 *)
\* C9: with call_format "{{script}} {{ip}} {{port}}" and a path, the argument
\* vector handed to the child is exactly the path, the address and the port
\* string, each one argument.
C9_Claim ==
  (ReachedExec /\ last.script.path # None
   /\ last.script.call_format =
        << <<"{", "{", "s", "c", "r", "i", "p", "t", "}", "}", " ",
             "{", "{", "i", "p", "}", "}", " ", "{", "{", "p", "o", "r", "t", "}", "}">> >>) =>
    last.run.arguments = <<last.script.path[1], IpToString(last.script.ip), last.run.ports_str>>

(* C10 *)
C10_HasScriptToken(d) ==
  d.call_format # None /\ Contains(d.call_format[1], <<"{", "{", "s", "c", "r", "i", "p", "t", "}", "}">>)

\* C10: every descriptor init_scripts returns whose call_format contains
\* {{script}} has a path, so Script::run on a script built from one never
\* reaches the {{script}} branch without a path.
C10_ScriptHasPath ==
  /\ result.st = "Ok" =>
       \A i \in 1..Len(result.val) : C10_HasScriptToken(result.val[i]) => result.val[i].path # None
  /\ Ran =>
       /\ ~(C10_HasScriptToken(last.script) /\ last.script.path = None)
       /\ last.run.res.msg # "called Option::unwrap() on a None value"

\* A script read from a file, whose format has {{script}}, has been rendered
\* with its path.
C10_Witness ==
  /\ Ran /\ C10_HasScriptToken(last.script) /\ last.script.path # None
  /\ last.run.rendered /\ mode = "Custom"

====
